---- MODULE Spec2Model ----
(***************************************************************************)
(* Account authentication and activation-code lifecycle of                 *)
(* trytond-nereid (party.py) and the session helpers of nereid/helpers.py. *)
(*                                                                         *)
(* Strings are sequences of character numbers (positions in                *)
(* string.letters + string.digits).  A stored value that is False/None in  *)
(* the database is the empty sequence.  sha1 is idealised as an injective  *)
(* function.                                                               *)
(*                                                                         *)
(* Every web request runs in one database transaction: what a request      *)
(* creates becomes visible to other requests when the request ends, and a  *)
(* request whose write is rejected by a UNIQUE constraint leaves nothing   *)
(* behind.  The searches of a request read the committed store.            *)
(***************************************************************************)
EXTENDS Integers, Sequences, FiniteSets, TLC

\* ------------------------------------------------------------------ bounds
MaxAddr == 3        \* address records in the store, the guest included
MaxFlashes == 1     \* flashed messages waiting in one session
MaxFlashed == 3     \* flash() calls followed in one session
MaxPath == 6        \* characters of a filename given to send_from_directory
MaxNodes == 3       \* records that have a parent field
MaxSize == 2        \* largest max_size given to make_crumbs

\* --------------------------------------------------------------- constants
RegistrationLength == 16   \* create_act_code(address, length=16)
ResetLength == 12          \* create_act_code(address[0], length=12)
SaltSize == 8              \* random.sample(..., 8)
AuthNone == 0              \* authenticate: return None
AuthFalse == -1            \* authenticate: return False (not activated)

\* ------------------------------------------------------------ input domains
Procs == {1, 2}                       \* concurrent requests / visitors
Visitors == {1}                       \* the visitor of the sequential runs
Seeds == {1, 2}                       \* outcomes of one random.sample call
SaltSeeds == {1}                      \* outcomes of the salt's random.sample
GuestEmail == "guest@x"
Emails == {"a@x"}                     \* emails visitors register with
UnknownEmail == "nobody@x"            \* an email nobody registers with
AllEmails == Emails \cup {GuestEmail, UnknownEmail}
Passwords == {<<21>>, <<22>>}         \* non-empty plaintext passwords
FormPasswords == Passwords \cup {<<>>}
FormNames == {<<>>, <<31>>, <<32>>}   \* AddressForm.name as posted \* what a form field may carry
GuestUser == 1                        \* current_app.guest_user
FlashTexts == {"m1", "m2"}            \* messages passed to flash()
Categories == {"message", "error"}    \* categories passed to flash()
Languages == {"en_US", "es_ES"}       \* codes passed to set_language

\* ------------------------------------------------------------ pure helpers
\* random.sample(population, length): `length` distinct characters.
random_sample(seed, length) == [i \in 1..length |-> seed + i - 1]

Codes(length) == {random_sample(s, length) : s \in Seeds}
AllCodes == Codes(ResetLength) \cup Codes(RegistrationLength)
Salts == {random_sample(s, SaltSize) : s \in SaltSeeds}

\* hashlib.sha1(x).hexdigest(): injective, and never equal to a plain string.
sha1(x) == <<0>> \o x

SetMin(S) == CHOOSE x \in S : \A y \in S : x <= y

\* -------------------------------------------------------------------- state
VARIABLES
    address,        \* party.address records, by id (1..Len)
    contact_mech,   \* party.contact_mechanism records of type email, by id
    session,        \* per visitor: user, allow_new_password, _flashes
    pc,             \* per request process: where its handler stands
    loc,            \* per request process: the handler's local variables
    last,           \* history: the operation that ended most recently
    ctx,            \* _request_ctx_stack.top of the request being served
    hist,           \* history of the session: flashed, delivered, language
    call            \* a call of a helper: its arguments, frame and result

vars == <<address, contact_mech, session, pc, loc, last, ctx, hist, call>>

\* No helper is being called.
NoCall == [fn |-> "", filename |-> <<>>, sent |-> <<>>, response |-> "",
           parent |-> <<>>, record |-> 0, add_home |-> FALSE, max_size |-> 0,
           node |-> 0, level |-> 0, items |-> <<>>, done |-> FALSE]

\* A session without keys (language "None": session.get gives None).  gate is
\* history: the credential whose 12-character code set allow_new_password.
NewSession == [user |-> 0, allow_new_password |-> FALSE, flashes |-> <<>>,
               language |-> "None", gate |-> 0]

\* The context of a request that has just begun: flashes is None.
NewContext == [flashes_set |-> FALSE, flashes |-> <<>>, calls |-> 0,
               first_with |-> FALSE, first |-> <<>>,
               returned_with |-> FALSE, returned |-> <<>>,
               flashed_between |-> FALSE,
               endpoint |-> "", response |-> ""]

NoHist == [flashed |-> <<>>, delivered |-> <<>>, language |-> "None",
           previous |-> "None"]

NoLoc == [handler |-> "", id |-> 0, email |-> "", password |-> <<>>,
          salt |-> <<>>, requested |-> 0, length |-> 0, act_code |-> <<>>]

NoLast == [op |-> "init", proc |-> 0, id |-> 0, email |-> "",
           password |-> <<>>, confirm |-> <<>>, old_password |-> <<>>,
           code |-> <<>>, length |-> 0, ret |-> "", auth |-> 0, flash |-> "",
           overwritten |-> <<>>]

Ids == 1..Len(address)

\* The guest address: it has an email and a password, and no pending code.
GuestAddress == [party |-> GuestUser, email |-> 1, name |-> <<30>>,
                 password |-> sha1(<<21>> \o random_sample(1, SaltSize)),
                 salt |-> random_sample(1, SaltSize),
                 activation_code |-> <<>>]

Init ==
    /\ address = <<GuestAddress>>
    /\ contact_mech = <<[value |-> GuestEmail, party |-> GuestUser]>>
    /\ session = [p \in Procs |-> NewSession]
    /\ pc = [p \in Procs |-> "idle"]
    /\ loc = [p \in Procs |-> NoLoc]
    /\ last = NoLast
    /\ ctx = NewContext
    /\ hist = NoHist
    /\ call = NoCall

\* ------------------------------------------------------------- the store
\* _convert_values: a truthy password gets a fresh salt appended.
convert_values(password, salt) ==
    IF password # <<>>
    THEN [password |-> password \o salt, salt |-> salt, has_salt |-> TRUE]
    ELSE [password |-> password, salt |-> <<>>, has_salt |-> FALSE]

\* write(id, {'password': password}): the Sha field stores the digest of the
\* converted value; the salt column is written only when values carry it.
write_password(rec, password, salt) ==
    LET v == convert_values(password, salt)
    IN [rec EXCEPT !.password = sha1(v.password),
                   !.salt = IF v.has_salt THEN v.salt ELSE @]

\* A store without the UNIQUE(activation_code) constraint.
unique_activation_code_off(addrs, id, code) == TRUE

\* UNIQUE(activation_code): may record `id` hold `code`?
unique_activation_code(addrs, id, code) ==
    \A a \in 1..Len(addrs) : a # id => addrs[a].activation_code # code

\* A search that never finds the candidate code.
search_activation_code_none(addrs, code) == {}

\* search([('activation_code', '=', act_code)])
search_activation_code(addrs, code) ==
    {a \in 1..Len(addrs) : addrs[a].activation_code = code}

\* contact_mech_obj.search([('value', '=', email), ('type', '=', 'email'), ...])
search_contact(contacts, email) ==
    {c \in 1..Len(contacts) : contacts[c].value = email}

\* self.search([('email', '=', contact)])
search_address(addrs, contact) ==
    {a \in 1..Len(addrs) : addrs[a].email = contact}

\* ---------------------------------------------------------- authenticate
\* The pending check looking for the wrong length.
not_activated_12(rec) ==
    rec.activation_code # <<>> /\ Len(rec.activation_code) = ResetLength

\* address.activation_code and len(address.activation_code) == 16
not_activated(rec) ==
    rec.activation_code # <<>> /\ Len(rec.activation_code) = RegistrationLength

\* password_sha == address.password
password_matches(rec, password) ==
    sha1(password \o rec.salt) = rec.password

\* A lookup that does not leave out the guest party.
lookup_any_party(addrs, contacts, email) ==
    LET contact == search_contact(contacts, email)
    IN  IF contact = {} THEN 0
        ELSE LET ids == search_address(addrs, SetMin(contact))
             IN  IF Cardinality(ids) # 1 THEN 0
                 ELSE CHOOSE x \in ids : TRUE

\* The lookup of authenticate: the address of the first contact mechanism
\* with this email outside the guest party, 0 when there is none or the
\* contact mechanism is not the email of exactly one address.
lookup(addrs, contacts, email) ==
    LET contact == {c \in search_contact(contacts, email) :
                        contacts[c].party # addrs[GuestUser].party}
    IN  IF contact = {} THEN 0
        ELSE LET ids == search_address(addrs, SetMin(contact))
             IN  IF Cardinality(ids) # 1 THEN 0
                 ELSE CHOOSE x \in ids : TRUE

\* An authenticate that answers a wrong password like a pending activation.
authenticate_tells(addrs, contacts, email, password) ==
    LET a == lookup(addrs, contacts, email)
    IN  IF a = 0 THEN AuthNone
        ELSE IF not_activated(addrs[a]) THEN AuthFalse
        ELSE IF password_matches(addrs[a], password) THEN a
        ELSE AuthFalse

authenticate(addrs, contacts, email, password) ==
    LET a == lookup(addrs, contacts, email)
    IN  IF a = 0 THEN AuthNone
        ELSE IF not_activated(addrs[a]) THEN AuthFalse
        ELSE IF password_matches(addrs[a], password) THEN a
        ELSE AuthNone

\* -------------------------------------------------------------- activate
\* A comparison that accepts a prefix of the stored code.
code_matches_prefix(stored, supplied) ==
    /\ stored # <<>>
    /\ Len(supplied) <= Len(stored)
    /\ SubSeq(stored, 1, Len(supplied)) = supplied

\* assert address.activation_code == activation_code
code_matches(stored, supplied) == stored = supplied

\* The reset flow taken for the registration length.
is_reset_code_16(code) == Len(code) = RegistrationLength

\* len(activation_code) == 12: the reset flow.
is_reset_code(code) == Len(code) = ResetLength

\* A redirect that knows the reset flow only.
activate_redirect_reset_only(code) ==
    IF is_reset_code(code) THEN "party.address.new_password"
    ELSE "nereid.website.login"

\* the redirect of a successful activate
activate_redirect(code) ==
    IF is_reset_code(code) THEN "party.address.new_password"
    ELSE IF Len(code) = RegistrationLength THEN "nereid.website.home"
    ELSE "nereid.website.login"

\* ------------------------------------------------------------------ forms
\* A form with Required only.
form_validate_required_only(password, confirm) == password # <<>>

\* NewPasswordForm / RegistrationForm: Required, EqualTo('confirm')
form_validate(password, confirm) == password # <<>> /\ password = confirm

\* flash(message, category):
\* session.setdefault('_flashes', []).append((category, message))
flash_as(s, message, category) ==
    [s EXCEPT !.flashes = Append(@, <<category, message>>)]

\* flash(message), category='message'
flash(s, message) == flash_as(s, message, "message")

\* [x[1] for x in flashes]
messages_of(flashes) == [i \in 1..Len(flashes) |-> flashes[i][2]]

\* A login_required that lets every request through.
login_required_off(s) == TRUE

\* login_required: 'user' in session.
login_required(s) == s.user # 0

\* request.nereid_user.id: the session's user, the guest without one.
nereid_user(s) == IF s.user = 0 THEN GuestUser ELSE s.user

\* A gate that is open in every session.
new_password_allowed_always(s) == TRUE

\* session.get('allow_new_password', False)
new_password_allowed(s) == s.allow_new_password

\* session.pop('user')
pop_user(s) == [s EXCEPT !.user = 0]

\* A pop that leaves allow_new_password in the session.
pop_allow_new_password_kept(s) == s

\* session.pop('allow_new_password')
pop_allow_new_password(s) == [s EXCEPT !.allow_new_password = FALSE]

\* A pop that leaves the messages in the session.
pop_flashes_kept(s) == s

\* session.pop('_flashes'): the session without its waiting messages.
pop_flashes(s) == [s EXCEPT !.flashes = <<>>]

\* A get_flashed_messages that reads the session on every call.
pull_flashes_uncached(c, s) ==
    [flashes |-> c.flashes \o s.flashes, session |-> pop_flashes(s)]

\* get_flashed_messages, lines 103-106: the first call of a request pops
\* '_flashes' from the session into the request context.
pull_flashes(c, s) ==
    IF ~c.flashes_set
    THEN [flashes |-> s.flashes, session |-> pop_flashes(s)]
    ELSE [flashes |-> c.flashes, session |-> s]

\* get_flashed_messages, lines 107-109: what the call returns.
flashed_messages(flashes, with_categories) ==
    IF ~with_categories THEN messages_of(flashes) ELSE flashes

\* A set_language that keeps a language once chosen.
set_language_once(s, language) ==
    IF s.language = "None" THEN [s EXCEPT !.language = language] ELSE s

\* /set_language?language=...: the language is kept in the session.
set_language(s, language) == [s EXCEPT !.language = language]

\* GET /: the page shows the session's language.
home(s) == s.language

\* ---------------------------------------------------------------- requests
\* A visitor sends its next request when its previous one has ended; the
\* number of unread flashed messages of a session is capped.
CanRequest(p) == pc[p] = "idle" /\ Len(session[p].flashes) < MaxFlashes

\* Registrations that have passed the existence check and not yet ended.
PendingRegistrations == {q \in Procs : loc[q].handler = "registration"}

\* registration(), up to the call of create_act_code: validate the form,
\* search for the email, create party, address and contact mechanism (inside
\* the request's transaction).
Registration(p, email, password, confirm, salt) ==
    /\ CanRequest(p)
    /\ Len(address) + Cardinality(PendingRegistrations) < MaxAddr
    /\ IF ~form_validate(password, confirm)
       THEN /\ last' = [NoLast EXCEPT !.op = "registration", !.proc = p,
                           !.password = password, !.confirm = confirm,
                           !.ret = "registration.jinja"]
            /\ UNCHANGED <<session, pc, loc>>
       ELSE IF search_contact(contact_mech, email) # {}
       THEN /\ session' = [session EXCEPT ![p] = flash(@,
                    "A registration already exists with this email")]
            /\ last' = [NoLast EXCEPT !.op = "registration", !.proc = p,
                           !.ret = "registration.jinja",
                           !.flash = "A registration already exists with this email"]
            /\ UNCHANGED <<pc, loc>>
       ELSE /\ loc' = [loc EXCEPT ![p] = [NoLoc EXCEPT
                           !.handler = "registration", !.email = email,
                           !.password = password, !.salt = salt,
                           !.requested = RegistrationLength,
                           !.length = RegistrationLength]]
            /\ pc' = [pc EXCEPT ![p] = "create_act_code"]
            /\ last' = [NoLast EXCEPT !.op = "registration_create", !.proc = p,
                           !.password = password, !.confirm = confirm]
            /\ UNCHANGED session
    /\ UNCHANGED <<address, contact_mech>>

\* reset_account(), POST, up to the call of create_act_code.
ResetAccount(p, email) ==
    /\ CanRequest(p)
    /\ LET contact == search_contact(contact_mech, email)
           addr == IF contact = {} THEN {}
                   ELSE search_address(address, SetMin(contact))
       IN  IF contact = {}
           THEN /\ session' = [session EXCEPT ![p] =
                                   flash(@, "Invalid email address")]
                /\ last' = [NoLast EXCEPT !.op = "reset_account", !.proc = p,
                               !.ret = "reset-password.jinja",
                               !.flash = "Invalid email address"]
                /\ UNCHANGED <<pc, loc>>
           ELSE IF addr = {}
           THEN /\ session' = [session EXCEPT ![p] = flash(@,
                        "Email is not associated with any account.")]
                /\ last' = [NoLast EXCEPT !.op = "reset_account", !.proc = p,
                               !.ret = "reset-password.jinja",
                               !.flash = "Email is not associated with any account."]
                /\ UNCHANGED <<pc, loc>>
           ELSE /\ loc' = [loc EXCEPT ![p] = [NoLoc EXCEPT
                               !.handler = "reset_account", !.email = email,
                               !.id = SetMin(addr),
                               !.requested = ResetLength,
                               !.length = ResetLength]]
                /\ pc' = [pc EXCEPT ![p] = "create_act_code"]
                /\ last' = [NoLast EXCEPT !.op = "reset_account_search",
                               !.proc = p]
                /\ UNCHANGED session
    /\ UNCHANGED <<address, contact_mech>>

\* create_act_code, one call frame: draw a candidate and search for it; when
\* it exists, recurse (the recursive call passes no length).
CreateActCode(p, seed) ==
    /\ pc[p] = "create_act_code"
    /\ LET act_code == random_sample(seed, loc[p].length)
           exists == search_activation_code(address, act_code)
       IN  IF exists # {}
           THEN /\ loc' = [loc EXCEPT ![p].length = RegistrationLength]
                /\ pc' = pc
                /\ last' = [NoLast EXCEPT !.op = "create_act_code_exists",
                               !.proc = p]
           ELSE /\ loc' = [loc EXCEPT ![p].act_code = act_code]
                /\ pc' = [pc EXCEPT ![p] = "write_act_code"]
                /\ last' = [NoLast EXCEPT !.op = "create_act_code_search",
                               !.proc = p]
    /\ UNCHANGED <<address, contact_mech, session>>

\* The record a registration creates: the password goes through
\* _convert_values, the email is the new contact mechanism.
NewAddress(l) ==
    [write_password([party |-> Len(address) + 1,
                     email |-> Len(contact_mech) + 1,
                     name |-> <<31>>,
                     password |-> <<>>, salt |-> <<>>,
                     activation_code |-> <<>>], l.password, l.salt)
        EXCEPT !.activation_code = l.act_code]

\* create_act_code, the write of the code, and the rest of the calling
\* handler.  The store rejects a code another record holds: the exception is
\* not caught and the request's transaction is undone.
WriteActCode(p) ==
    /\ pc[p] = "write_act_code"
    /\ LET l == loc[p]
           id == IF l.handler = "registration" THEN Len(address) + 1 ELSE l.id
           message == IF l.handler = "registration"
                      THEN "Registration Complete. Check your email for activation"
                      ELSE "An email has been sent to your account"
       IN  IF ~unique_activation_code(address, id, l.act_code)
           THEN /\ last' = [NoLast EXCEPT !.op = "create_act_code", !.proc = p,
                               !.id = l.id, !.length = l.requested,
                               !.ret = "ConflictError"]
                /\ UNCHANGED <<address, contact_mech, session>>
           ELSE /\ IF l.handler = "registration"
                   THEN /\ address' = Append(address, NewAddress(l))
                        /\ contact_mech' = Append(contact_mech,
                               [value |-> l.email, party |-> Len(address) + 1])
                   ELSE /\ address' = [address EXCEPT
                               ![id].activation_code = l.act_code]
                        /\ UNCHANGED contact_mech
                /\ session' = [session EXCEPT ![p] = flash(@, message)]
                /\ last' = [NoLast EXCEPT !.op = "create_act_code", !.proc = p,
                               !.id = id, !.length = l.requested,
                               !.overwritten =
                                   IF l.handler = "registration" THEN <<>>
                                   ELSE address[id].activation_code,
                               !.ret = IF l.handler = "registration"
                                       THEN "nereid.website.home"
                                       ELSE "nereid.website.login",
                               !.flash = message]
    /\ pc' = [pc EXCEPT ![p] = "idle"]
    /\ loc' = [loc EXCEPT ![p] = NoLoc]

\* activate(address_id, activation_code): _activate, then the session.
Activate(p, id, code) ==
    /\ CanRequest(p)
    /\ id \in Ids
    /\ IF code_matches(address[id].activation_code, code)
       THEN /\ address' = [address EXCEPT ![id].activation_code = <<>>]
            /\ session' = [session EXCEPT ![p] =
                    [flash(@, "Your account has been activated") EXCEPT
                        !.user = id,
                        !.allow_new_password =
                            IF is_reset_code(code) THEN TRUE ELSE @,
                        !.gate = IF is_reset_code(code) THEN id ELSE @]]
            /\ last' = [NoLast EXCEPT !.op = "activate", !.proc = p,
                           !.id = id, !.code = code,
                           !.overwritten = address[id].activation_code,
                           !.ret = activate_redirect(code),
                           !.flash = "Your account has been activated"]
       ELSE /\ session' = [session EXCEPT ![p] =
                               flash(@, "Invalid Activation Code")]
            /\ last' = [NoLast EXCEPT !.op = "activate", !.proc = p,
                           !.id = id, !.code = code,
                           !.ret = "nereid.website.login",
                           !.flash = "Invalid Activation Code"]
            /\ UNCHANGED address
    /\ UNCHANGED <<contact_mech, pc, loc>>

\* activate(address_id, activation_code) interleaved with other requests at
\* its store accesses: _activate browses the record and compares the code;
\* a wrong code ends the request.
ActivateRead(p, id, code) ==
    /\ CanRequest(p)
    /\ id \in Ids
    /\ IF code_matches(address[id].activation_code, code)
       THEN /\ loc' = [loc EXCEPT ![p] = [NoLoc EXCEPT
                           !.handler = "activate", !.id = id,
                           !.act_code = code]]
            /\ pc' = [pc EXCEPT ![p] = "activate_write"]
            /\ last' = [NoLast EXCEPT !.op = "activate_browse", !.proc = p]
            /\ UNCHANGED session
       ELSE /\ session' = [session EXCEPT ![p] =
                               flash(@, "Invalid Activation Code")]
            /\ last' = [NoLast EXCEPT !.op = "activate", !.proc = p,
                           !.id = id, !.code = code,
                           !.ret = "nereid.website.login",
                           !.flash = "Invalid Activation Code"]
            /\ UNCHANGED <<pc, loc>>
    /\ UNCHANGED <<address, contact_mech>>

\* activate after the comparison: _activate writes the cleared code, then the
\* handler logs the visitor in.
ActivateWrite(p) ==
    /\ pc[p] = "activate_write"
    /\ LET id == loc[p].id
           code == loc[p].act_code
       IN  /\ address' = [address EXCEPT ![id].activation_code = <<>>]
           /\ session' = [session EXCEPT ![p] =
                   [flash(@, "Your account has been activated") EXCEPT
                       !.user = id,
                       !.allow_new_password =
                           IF is_reset_code(code) THEN TRUE ELSE @,
                       !.gate = IF is_reset_code(code) THEN id ELSE @]]
           /\ last' = [NoLast EXCEPT !.op = "activate", !.proc = p,
                          !.id = id, !.code = code,
                          !.overwritten = address[id].activation_code,
                          !.ret = activate_redirect(code),
                          !.flash = "Your account has been activated"]
    /\ pc' = [pc EXCEPT ![p] = "idle"]
    /\ loc' = [loc EXCEPT ![p] = NoLoc]
    /\ UNCHANGED contact_mech

\* A message flashed for every result that is not a credential.
authenticate_message_any_failure(r) ==
    IF r = AuthFalse \/ r = AuthNone
    THEN "Your account has not been activated yet!"
    ELSE ""

\* What authenticate flashes for its result ("": nothing).
authenticate_message(r) ==
    IF r = AuthFalse THEN "Your account has not been activated yet!" ELSE ""

\* A call of authenticate(email, password).
Authenticate(p, email, password) ==
    /\ CanRequest(p)
    /\ LET r == authenticate(address, contact_mech, email, password)
           message == authenticate_message(r)
       IN  /\ session' = IF message # ""
                         THEN [session EXCEPT ![p] = flash(@, message)]
                         ELSE session
           /\ last' = [NoLast EXCEPT !.op = "authenticate", !.proc = p,
                          !.email = email, !.password = password,
                          !.auth = r, !.flash = message]
    /\ UNCHANGED <<address, contact_mech, pc, loc>>

\* change_password(), POST, under login_required.
ChangePassword(p, old_password, password, confirm, salt) ==
    /\ CanRequest(p)
    /\ IF ~login_required(session[p])
       THEN /\ last' = [NoLast EXCEPT !.op = "change_password", !.proc = p,
                           !.ret = "nereid.website.login?next"]
            /\ UNCHANGED <<address, session>>
       ELSE IF form_validate(password, confirm)
       THEN /\ address' = [address EXCEPT ![nereid_user(session[p])] =
                               write_password(@, password, salt)]
            /\ session' = [session EXCEPT ![p] = pop_user(
                    flash(@, "Your password has been successfully changed!"))]
            /\ last' = [NoLast EXCEPT !.op = "change_password", !.proc = p,
                           !.id = nereid_user(session[p]), !.password = password,
                           !.confirm = confirm, !.old_password = old_password,
                           !.ret = "nereid.website.login",
                           !.flash = "Your password has been successfully changed!"]
       ELSE /\ last' = [NoLast EXCEPT !.op = "change_password", !.proc = p,
                           !.password = password, !.confirm = confirm,
                           !.ret = "change-password.jinja"]
            /\ UNCHANGED <<address, session>>
    /\ UNCHANGED <<contact_mech, pc, loc>>

\* new_password(), POST, under login_required.
NewPassword(p, password, confirm, salt) ==
    /\ CanRequest(p)
    /\ IF ~login_required(session[p])
       THEN /\ last' = [NoLast EXCEPT !.op = "new_password", !.proc = p,
                           !.ret = "nereid.website.login?next"]
            /\ UNCHANGED <<address, session>>
       ELSE IF ~form_validate(password, confirm)
       THEN /\ last' = [NoLast EXCEPT !.op = "new_password", !.proc = p,
                           !.password = password, !.confirm = confirm,
                           !.ret = "new-password.jinja"]
            /\ UNCHANGED <<address, session>>
       ELSE IF ~new_password_allowed(session[p])
       THEN /\ last' = [NoLast EXCEPT !.op = "new_password", !.proc = p,
                           !.password = password, !.confirm = confirm,
                           !.ret = "403"]
            /\ UNCHANGED <<address, session>>
       ELSE /\ address' = [address EXCEPT ![nereid_user(session[p])] =
                               write_password(@, password, salt)]
            /\ session' = [session EXCEPT ![p] = pop_user(flash(
                    [pop_allow_new_password(@) EXCEPT !.gate = 0],
                    "Your password has been successfully changed!"))]
            /\ last' = [NoLast EXCEPT !.op = "new_password", !.proc = p,
                           !.id = nereid_user(session[p]), !.password = password,
                           !.confirm = confirm,
                           !.ret = "nereid.website.login",
                           !.flash = "Your password has been successfully changed!"]
    /\ UNCHANGED <<contact_mech, pc, loc>>

\* AddressForm: name is required (the other fields are not followed).
address_form_validate(name) == name # <<>>

\* The addresses of request.nereid_user.party.
party_addresses(addrs, user) ==
    {a \in 1..Len(addrs) : addrs[a].party = addrs[user].party}

\* edit_address(address), under login_required: a POST with a valid form
\* writes the address when it is one of the user's party, and creates an
\* address of that party otherwise; every other request renders the form.
EditAddress(p, method, addr, name) ==
    /\ CanRequest(p)
    /\ IF ~login_required(session[p])
       THEN /\ last' = [NoLast EXCEPT !.op = "edit_address", !.proc = p,
                           !.ret = "nereid.website.login?next"]
            /\ UNCHANGED address
       ELSE LET user == nereid_user(session[p])
                own == IF addr \in party_addresses(address, user)
                       THEN addr ELSE 0
            IN  IF method = "POST" /\ address_form_validate(name)
                THEN /\ IF own # 0
                        THEN address' = [address EXCEPT ![own].name = name]
                        ELSE /\ Len(address) < MaxAddr
                             /\ address' = Append(address,
                                    [party |-> address[user].party,
                                     email |-> 0, name |-> name,
                                     password |-> <<>>, salt |-> <<>>,
                                     activation_code |-> <<>>])
                     /\ last' = [NoLast EXCEPT !.op = "edit_address",
                                    !.proc = p, !.id = own,
                                    !.ret = "party.address.view_address"]
                ELSE /\ last' = [NoLast EXCEPT !.op = "edit_address",
                                    !.proc = p, !.id = own,
                                    !.ret = "address-edit.jinja"]
                     /\ UNCHANGED address
    /\ UNCHANGED <<contact_mech, session, pc, loc>>

\* view_address(), under login_required.
ViewAddress(p) ==
    /\ CanRequest(p)
    /\ last' = [NoLast EXCEPT !.op = "view_address", !.proc = p,
                   !.ret = IF ~login_required(session[p])
                           THEN "nereid.website.login?next"
                           ELSE "address.jinja"]
    /\ UNCHANGED <<address, contact_mech, session, pc, loc>>

\* write(id, {'password': password}) called on the model itself, as
\* create_web_account and the ORM's clients do.
Write(p, id, password, salt) ==
    /\ pc[p] = "idle"
    /\ id \in Ids
    /\ address' = [address EXCEPT ![id] = write_password(@, password, salt)]
    /\ last' = [NoLast EXCEPT !.op = "write", !.proc = p, !.id = id,
                   !.password = password]
    /\ UNCHANGED <<contact_mech, session, pc, loc>>

\* get_flashed_messages(): pulls the flashed messages from the session.
GetFlashedMessages(p) ==
    /\ pc[p] = "idle"
    /\ session[p].flashes # <<>>
    /\ session' = [session EXCEPT ![p].flashes = <<>>]
    /\ last' = [NoLast EXCEPT !.op = "get_flashed_messages", !.proc = p]
    /\ UNCHANGED <<address, contact_mech, pc, loc>>

\* ----------------------------------------------------------- specifications
Step(p) ==
    \/ \E e \in Emails \cup {GuestEmail}, pw \in FormPasswords,
          cf \in Passwords, s \in Salts :
           Registration(p, e, pw, cf, s)
    \/ \E e \in AllEmails : ResetAccount(p, e)
    \/ \E k \in Seeds : CreateActCode(p, k)
    \/ WriteActCode(p)
    \/ \E id \in Ids, c \in AllCodes : Activate(p, id, c)
    \/ \E e \in AllEmails, pw \in FormPasswords : Authenticate(p, e, pw)
    \/ \E old \in Passwords, pw \in FormPasswords, cf \in Passwords, s \in Salts :
           ChangePassword(p, old, pw, cf, s)
    \/ \E pw \in FormPasswords, cf \in Passwords, s \in Salts :
           NewPassword(p, pw, cf, s)
    \/ \E id \in Ids, pw \in FormPasswords, s \in Salts : Write(p, id, pw, s)
    \/ GetFlashedMessages(p)

\* One visitor, one request at a time.
Next == (\E p \in Visitors : Step(p)) /\ UNCHANGED <<ctx, hist, call>>

Spec == Init /\ [][Next]_vars

\* The handlers that issue and consume activation codes, run by several
\* visitors and interleaved at their store accesses.  The runs start from the
\* empty site, from a site with one registration waiting for its activation,
\* and from a site with one activated account; every visitor sends as many
\* requests as its session may hold unread messages.
RegisteredAddress(code) ==
    [party |-> 2, email |-> 2, name |-> <<31>>,
     password |-> sha1(<<21>> \o random_sample(1, SaltSize)),
     salt |-> random_sample(1, SaltSize),
     activation_code |-> code]

InitConc ==
    /\ \/ /\ address = <<GuestAddress>>
          /\ contact_mech = <<[value |-> GuestEmail, party |-> GuestUser]>>
       \/ /\ address \in {<<GuestAddress, RegisteredAddress(c)>> :
                    c \in {<<>>, random_sample(1, RegistrationLength)}}
          /\ contact_mech = <<[value |-> GuestEmail, party |-> GuestUser],
                              [value |-> "a@x", party |-> 2]>>
    /\ session = [p \in Procs |-> NewSession]
    /\ pc = [p \in Procs |-> "idle"]
    /\ loc = [p \in Procs |-> NoLoc]
    /\ last = NoLast
    /\ ctx = NewContext
    /\ hist = NoHist
    /\ call = NoCall

StepConc(p) ==
    \/ \E e \in Emails, pw \in Passwords, s \in Salts :
           Registration(p, e, pw, pw, s)
    \/ \E e \in Emails \cup {GuestEmail} : ResetAccount(p, e)
    \/ \E k \in Seeds : CreateActCode(p, k)
    \/ WriteActCode(p)
    \/ \E id \in Ids, c \in AllCodes : ActivateRead(p, id, c)
    \/ ActivateWrite(p)

NextConc == (\E p \in Procs : StepConc(p)) /\ UNCHANGED <<ctx, hist, call>>

SpecConc == InitConc /\ [][NextConc]_vars

\* The handlers under login_required, with the handlers that log a visitor
\* in and out, on a site that has one registered account.
StepAddress(p) ==
    \/ \E e \in Emails : ResetAccount(p, e)
    \/ \E k \in Seeds : CreateActCode(p, k)
    \/ WriteActCode(p)
    \/ \E id \in Ids, c \in AllCodes : Activate(p, id, c)
    \/ \E old \in Passwords, pw \in FormPasswords, cf \in Passwords, s \in Salts :
           ChangePassword(p, old, pw, cf, s)
    \/ \E pw \in FormPasswords, cf \in Passwords, s \in Salts :
           NewPassword(p, pw, cf, s)
    \/ \E m \in {"GET", "POST"}, a \in Ids \cup {0}, n \in FormNames :
           EditAddress(p, m, a, n)
    \/ ViewAddress(p)
    \/ GetFlashedMessages(p)

NextAddress == (\E p \in Visitors : StepAddress(p)) /\ UNCHANGED <<ctx, hist, call>>

SpecAddress == InitConc /\ [][NextAddress]_vars

\* ------------------------------------------------ session and flash helpers
\* A new request of the visitor begins: a fresh request context.
RequestBegins(v) ==
    /\ ctx' = NewContext
    /\ ctx # NewContext
    /\ UNCHANGED <<address, contact_mech, session, pc, loc, last, hist>>

\* flash(message, category) called by the request being served.
FlashCall(v, message, category) ==
    /\ Len(hist.flashed) < MaxFlashed
    /\ session' = [session EXCEPT ![v] = flash_as(@, message, category)]
    /\ hist' = [hist EXCEPT !.flashed = Append(@, <<category, message>>)]
    /\ ctx' = [ctx EXCEPT !.flashed_between = (ctx.calls > 0)]
    /\ UNCHANGED <<address, contact_mech, pc, loc, last>>

\* get_flashed_messages(with_categories) called by the request being served.
GetFlashedCall(v, with_categories) ==
    /\ LET r == pull_flashes(ctx, session[v])
           value == flashed_messages(r.flashes, with_categories)
       IN  /\ session' = [session EXCEPT ![v] = r.session]
           /\ ctx' = [ctx EXCEPT
                  !.flashes_set = TRUE,
                  !.flashes = r.flashes,
                  !.calls = IF @ < 2 THEN @ + 1 ELSE @,
                  !.first_with = IF ctx.calls = 0 THEN with_categories ELSE @,
                  !.first = IF ctx.calls = 0 THEN value ELSE @,
                  !.returned_with = with_categories,
                  !.returned = value]
           /\ hist' = [hist EXCEPT
                  !.delivered = IF ctx.calls = 0 THEN @ \o r.flashes ELSE @]
    /\ UNCHANGED <<address, contact_mech, pc, loc, last>>

\* A request to /set_language?language=...&next=/
SetLanguage(v, language) ==
    /\ session' = [session EXCEPT ![v] = set_language(@, language)]
    /\ hist' = [hist EXCEPT !.language = language, !.previous = hist.language]
    /\ ctx' = [NewContext EXCEPT !.endpoint = "set_language",
                                 !.response = "/"]
    /\ UNCHANGED <<address, contact_mech, pc, loc, last>>

\* A request to /
Home(v) ==
    /\ ctx' = [NewContext EXCEPT !.endpoint = "home",
                                 !.response = home(session[v])]
    /\ UNCHANGED <<address, contact_mech, session, pc, loc, last, hist>>

\* app.test_client(): a visitor without a session cookie.
NewClient(v) ==
    /\ session[v] # NewSession
    /\ session' = [session EXCEPT ![v] = NewSession]
    /\ hist' = NoHist
    /\ ctx' = NewContext
    /\ UNCHANGED <<address, contact_mech, pc, loc, last>>

StepSession(v) ==
    \/ RequestBegins(v)
    \/ \E m \in FlashTexts, c \in Categories : FlashCall(v, m, c)
    \/ \E w \in BOOLEAN : GetFlashedCall(v, w)
    \/ \E l \in Languages : SetLanguage(v, l)
    \/ Home(v)
    \/ NewClient(v)

NextSession == (\E v \in Visitors : StepSession(v)) /\ UNCHANGED call

\* The requests of one session, as the flash helpers and the language
\* handlers see them.
SpecSession == Init /\ [][NextSession]_vars

\* ------------------------------------------------------ send_from_directory
\* Paths are sequences of characters.
PathChars == {"/", ".", "d", "f"}
Paths == UNION {[1..n -> PathChars] : n \in 0..MaxPath}

Slash == <<"/">>
Dot == <<".">>
DotDot == <<".", ".">>

\* The file system: the directory served, /d, holds a file and a directory
\* with a file; a file of the same name lies beside /d.
Directory == <<"/", "d">>
Dirs == {<<>>, <<<<"d">>>>, <<<<"d">>, <<"d">>>>}
Files == {<<<<"f">>>>, <<<<"d">>, <<"f">>>>, <<<<"d">>, <<"d">>, <<"f">>>>}
Missing == <<<<"?">>>>

\* s.startswith(prefix)
startswith(s, prefix) ==
    Len(s) >= Len(prefix) /\ SubSeq(s, 1, Len(prefix)) = prefix

\* path.split('/')
RECURSIVE split(_)
split(path) ==
    IF \A i \in 1..Len(path) : path[i] # "/" THEN <<path>>
    ELSE LET i == SetMin({j \in 1..Len(path) : path[j] = "/"})
         IN  <<SubSeq(path, 1, i - 1)>> \o split(SubSeq(path, i + 1, Len(path)))

\* '/'.join(comps)
RECURSIVE slash_join(_)
slash_join(comps) ==
    IF comps = <<>> THEN <<>>
    ELSE IF Len(comps) = 1 THEN comps[1]
    ELSE comps[1] \o Slash \o slash_join(Tail(comps))

\* posixpath.normpath: one or two leading slashes are kept.
initial_slashes(path) ==
    IF ~startswith(path, Slash) THEN 0
    ELSE IF startswith(path, Slash \o Slash)
            /\ ~startswith(path, Slash \o Slash \o Slash) THEN 2
    ELSE 1

\* posixpath.normpath: the loop over the components.
RECURSIVE new_comps(_, _, _)
new_comps(comps, slashes, acc) ==
    IF comps = <<>> THEN acc
    ELSE LET comp == Head(comps)
             next == IF comp = <<>> \/ comp = Dot THEN acc
                     ELSE IF \/ comp # DotDot
                             \/ (slashes = 0 /\ acc = <<>>)
                             \/ (acc # <<>> /\ acc[Len(acc)] = DotDot)
                     THEN Append(acc, comp)
                     ELSE IF acc # <<>> THEN SubSeq(acc, 1, Len(acc) - 1)
                     ELSE acc
         IN  new_comps(Tail(comps), slashes, next)

\* posixpath.normpath(path)
normpath(path) ==
    IF path = <<>> THEN Dot
    ELSE LET slashes == initial_slashes(path)
             joined == slash_join(new_comps(split(path), slashes, <<>>))
             result == IF slashes = 2 THEN Slash \o Slash \o joined
                       ELSE IF slashes = 1 THEN Slash \o joined
                       ELSE joined
         IN  IF result = <<>> THEN Dot ELSE result

\* A check that refuses absolute paths only.
leaves_directory_absolute_only(filename) == startswith(filename, Slash)

\* filename.startswith(('/', '../'))
leaves_directory(filename) ==
    startswith(filename, Slash) \/ startswith(filename, DotDot \o Slash)

\* os.path.join(directory, filename)
path_join(directory, filename) ==
    IF startswith(filename, Slash) THEN filename
    ELSE IF directory = <<>> \/ directory[Len(directory)] = "/"
    THEN directory \o filename
    ELSE directory \o Slash \o filename

\* The file system's lookup of the components of an absolute path.
RECURSIVE walk(_, _)
walk(comps, cur) ==
    IF comps = <<>> THEN cur
    ELSE IF cur \notin Dirs THEN Missing
    ELSE LET comp == Head(comps)
         IN  IF comp = <<>> \/ comp = Dot THEN walk(Tail(comps), cur)
             ELSE IF comp = DotDot
             THEN walk(Tail(comps),
                       IF cur = <<>> THEN cur ELSE SubSeq(cur, 1, Len(cur) - 1))
             ELSE IF Append(cur, comp) \in Dirs \cup Files
             THEN walk(Tail(comps), Append(cur, comp))
             ELSE Missing

\* The file or directory an absolute path leads to.
resolve(path) == walk(split(path), <<>>)

\* os.path.isfile(path)
isfile(path) == resolve(path) \in Files

\* send_from_directory(directory, filename)
send_from_directory(directory, filename) ==
    LET normal == normpath(filename)
        joined == path_join(directory, normal)
    IN  IF leaves_directory(normal)
        THEN [response |-> "NotFound", sent |-> <<>>]
        ELSE IF ~isfile(joined)
        THEN [response |-> "NotFound", sent |-> <<>>]
        ELSE [response |-> "send_file", sent |-> joined]

\* A call of send_from_directory with the served directory.
SendFromDirectory ==
    /\ call.fn = "send_from_directory"
    /\ ~call.done
    /\ LET r == send_from_directory(Directory, call.filename)
       IN  call' = [call EXCEPT !.response = r.response, !.sent = r.sent,
                                !.done = TRUE]
    /\ UNCHANGED <<address, contact_mech, session, pc, loc, last, ctx, hist>>

\* -------------------------------------------------------------- make_crumbs
Nodes == 1..MaxNodes

\* The parent field of every record (0: no parent).
ParentRelations == [Nodes -> Nodes \cup {0}]

\* (url_for(endpoint, uri=node.uri), node.title)
crumb(node) == [endpoint |-> "endpoint", uri |-> node,
                title |-> <<"t1", "t2", "t3", "t4", "t5">>[node]]

\* (url_for('nereid.website.home'), 'Home')
HomeCrumb == [endpoint |-> "nereid.website.home", uri |-> 0, title |-> "Home"]

\* A recursion that ends only at a record without parent.
recurse_ends_at_root(node, level, max_size) == node = 0

\* recurse: level > max_size or not node
recurse_ends(node, level, max_size) == level > max_size \/ node = 0

\* One frame of recurse(node, level); the frame that ends the recursion
\* hands the list back to make_crumbs, which appends Home and returns.
MakeCrumbs ==
    /\ call.fn = "make_crumbs"
    /\ ~call.done
    /\ call.level <= MaxSize + 1
    /\ IF recurse_ends(call.node, call.level, call.max_size)
       THEN call' = [call EXCEPT
                !.items = IF call.add_home THEN Append(@, HomeCrumb) ELSE @,
                !.done = TRUE]
       ELSE call' = [call EXCEPT
                !.items = Append(@, crumb(call.node)),
                !.node = call.parent[call.node],
                !.level = @ + 1]
    /\ UNCHANGED <<address, contact_mech, session, pc, loc, last, ctx, hist>>

\* The calls of the helpers: every filename, and every record of every
\* parent relation with every max_size and add_home.
HelperCalls ==
    {[NoCall EXCEPT !.fn = "send_from_directory", !.filename = f] :
        f \in Paths}
    \cup
    {[NoCall EXCEPT !.fn = "make_crumbs", !.parent = r[1], !.record = r[2],
                    !.add_home = r[3], !.max_size = r[4],
                    !.node = r[2], !.level = 1] :
        r \in ParentRelations \X (Nodes \cup {0}) \X BOOLEAN \X (0..MaxSize)}

\* A helper is called with its arguments.
CallHelper ==
    /\ call = NoCall
    /\ call' \in HelperCalls
    /\ UNCHANGED <<address, contact_mech, session, pc, loc, last, ctx, hist>>

NextHelpers == CallHelper \/ SendFromDirectory \/ MakeCrumbs

\* The helpers that neither read nor write the site's state.
SpecHelpers == Init /\ [][NextHelpers]_vars

\* ------------------------------------------------------------------ claims
\* The email a credential logs in with.
EmailOf(id) == contact_mech[address[id].email].value

PasswordWrites == {"write", "change_password", "new_password"}

\* C1: authenticate on a credential whose stored activation code has 16
\* characters returns False (pending activation), never the credential and
\* never None, for every password, matching or not.
C1_PendingActivation ==
    /\ last.op = "authenticate" =>
         LET a == lookup(address, contact_mech, last.email)
         IN  (a # 0 /\ Len(address[a].activation_code) = RegistrationLength)
                 => last.auth = AuthFalse
    /\ \A e \in AllEmails, pw \in FormPasswords :
         LET a == lookup(address, contact_mech, e)
         IN  (a # 0 /\ Len(address[a].activation_code) = RegistrationLength)
                 => authenticate(address, contact_mech, e, pw) = AuthFalse

\* An authenticate with the right password was answered False.
C1_Witness ==
    /\ last.op = "authenticate"
    /\ last.auth = AuthFalse
    /\ LET a == lookup(address, contact_mech, last.email)
       IN  /\ a # 0
           /\ Len(address[a].activation_code) = RegistrationLength
           /\ password_matches(address[a], last.password)

\* C2: after a password-bearing write of p on a credential with no pending
\* 16-character code, authenticate(email, p) returns the credential and
\* authenticate(email, q), q # p, returns None.
C2_SetPasswordThenAuthenticate ==
    (/\ last.op \in PasswordWrites
     /\ last.id \notin {0, GuestUser}
     /\ ~not_activated(address[last.id]))
    => /\ authenticate(address, contact_mech, EmailOf(last.id), last.password)
            = last.id
       /\ \A q \in FormPasswords \ {last.password} :
            authenticate(address, contact_mech, EmailOf(last.id), q) = AuthNone

\* C3: activate with the stored 16-character code succeeds, clears the code
\* and redirects to home without setting allow_new_password; an activate on a
\* credential whose code is cleared fails with Invalid Activation Code; and a
\* cleared code becomes a code again only when create_act_code writes one.
C3_RegistrationActivation ==
    [][\A id \in Ids :
        /\ (/\ last'.op = "activate" /\ last'.id = id
            /\ address[id].activation_code = last'.code
            /\ Len(last'.code) = RegistrationLength)
           => /\ address'[id].activation_code = <<>>
              /\ last'.ret = "nereid.website.home"
              /\ last'.flash = "Your account has been activated"
              /\ session'[last'.proc].allow_new_password
                    = session[last'.proc].allow_new_password
        /\ (/\ last'.op = "activate" /\ last'.id = id
            /\ address[id].activation_code = <<>>)
           => /\ last'.flash = "Invalid Activation Code"
              /\ address'[id].activation_code = <<>>
        /\ (address[id].activation_code = <<>>
            /\ address'[id].activation_code # <<>>)
           => last'.op = "create_act_code"
      ]_vars

\* A registration code was consumed and the visitor sent home.
C3_Witness ==
    /\ last.op = "activate"
    /\ last.ret = "nereid.website.home"
    /\ Len(last.code) = RegistrationLength
    /\ last.id # GuestUser
    /\ address[last.id].activation_code = <<>>

\* C4: the code that create_act_code(id, 12) stores is reported by activate
\* as a reset activation, and authenticate starts to succeed with a password
\* only through a password write of that password.
C4_ResetActivation ==
    [][/\ (/\ last'.op = "create_act_code"
           /\ last'.length = ResetLength
           /\ last'.ret # "ConflictError")
          => activate_redirect(address'[last'.id].activation_code)
                = "party.address.new_password"
       /\ \A id \in Ids \ {GuestUser}, pw \in FormPasswords :
            (/\ authenticate(address, contact_mech, EmailOf(id), pw) = AuthNone
             /\ authenticate(address', contact_mech', EmailOf(id), pw) = id)
            => /\ last'.op \in PasswordWrites
               /\ last'.id = id
               /\ last'.password = pw
      ]_vars

\* C5: nothing but a successful activate on it moves a registered credential
\* out of the pending-registration state (a stored 16-character code).
C5_OnlyActivateActivates ==
    [][\A id \in Ids \ {GuestUser} :
        (not_activated(address[id]) /\ ~not_activated(address'[id]))
        => /\ last'.op = "activate"
           /\ last'.id = id
           /\ last'.flash = "Your account has been activated"
      ]_vars

\* C6: create_act_code persists a code of exactly the requested length.
C6_CodeLength ==
    (last.op = "create_act_code" /\ last.ret # "ConflictError")
    => Len(address[last.id].activation_code) = last.length

\* C7: no two distinct credentials hold the same non-empty activation code.
C7_UniqueCodes ==
    \A i \in Ids, j \in Ids :
        (i # j /\ address[i].activation_code # <<>>)
        => address[i].activation_code # address[j].activation_code

\* The store has rejected a duplicate written by an interleaved request, and
\* two credentials hold codes.
C7_Witness ==
    /\ last.op = "create_act_code"
    /\ last.ret = "ConflictError"
    /\ \E i \in Ids, j \in Ids :
        /\ i # j
        /\ address[i].activation_code # <<>>
        /\ address[j].activation_code # <<>>

\* C8: a create_act_code whose write the store rejects as a duplicate still
\* ends with a code persisted, never with the error.
C8_ConflictRetried ==
    last.op = "create_act_code" => last.ret # "ConflictError"

\* C9: activate with a code that is not the stored one flashes Invalid
\* Activation Code, redirects to login and leaves every credential and the
\* session keys user and allow_new_password as they were.
C9_InvalidCode ==
    [][\A id \in Ids :
        (/\ last'.op = "activate" /\ last'.id = id
         /\ address[id].activation_code # last'.code)
        => /\ last'.flash = "Invalid Activation Code"
           /\ last'.ret = "nereid.website.login"
           /\ address' = address
           /\ session'[last'.proc].user = session[last'.proc].user
           /\ session'[last'.proc].allow_new_password
                 = session[last'.proc].allow_new_password
      ]_vars

\* A prefix of the stored code was refused.
C9_Witness ==
    /\ last.op = "activate"
    /\ last.flash = "Invalid Activation Code"
    /\ Len(address[last.id].activation_code) = RegistrationLength
    /\ SubSeq(address[last.id].activation_code, 1, ResetLength) = last.code

\* C10: a successful activate sets session user to the id; it sets
\* allow_new_password and redirects to new_password exactly when the code has
\* 12 characters, and with 16 characters redirects to home and leaves
\* allow_new_password as it was.
C10_ActivateSession ==
    [][\A id \in Ids :
        (/\ last'.op = "activate" /\ last'.id = id
         /\ address[id].activation_code = last'.code)
        => /\ session'[last'.proc].user = id
           /\ IF Len(last'.code) = ResetLength
              THEN /\ session'[last'.proc].allow_new_password
                   /\ last'.ret = "party.address.new_password"
              ELSE /\ Len(last'.code) = RegistrationLength
                   /\ session'[last'.proc].allow_new_password
                         = session[last'.proc].allow_new_password
                   /\ last'.ret = "nereid.website.home"
      ]_vars

\* A reset code was consumed and the session holds the gate.
C10_Witness ==
    /\ last.op = "activate"
    /\ last.ret = "party.address.new_password"
    /\ Len(last.code) = ResetLength
    /\ session[last.proc].user = last.id
    /\ session[last.proc].allow_new_password

\* C11: change_password replaces the password only when the submitted
\* old_password is the credential's current password; a handler replaces a
\* password without the old password only in new_password, and only while the
\* session's allow_new_password is True.
C11_OldPasswordDemanded ==
    [][/\ (last'.op = "change_password" /\ last'.id # 0)
          => password_matches(address[last'.id], last'.old_password)
       /\ \A id \in Ids :
            (/\ address'[id].password # address[id].password
             /\ last'.op # "write")
            => \/ /\ last'.op = "change_password"
                  /\ password_matches(address[id], last'.old_password)
               \/ /\ last'.op = "new_password"
                  /\ session[last'.proc].allow_new_password
      ]_vars

\* C12 (as claimed): authenticate leaves every credential record and the
\* whole session, flashed messages included, unchanged.
C12_NoSideEffects ==
    [][last'.op = "authenticate"
       => /\ address' = address
          /\ contact_mech' = contact_mech
          /\ session' = session
      ]_vars

\* C12 (amended): authenticate leaves every credential record and the session
\* keys user and allow_new_password unchanged; it leaves the flashed messages
\* unchanged unless it answers False, and then it appends exactly the "not
\* activated" message to the caller's session.
C12_OnlyPendingFlashes ==
    [][last'.op = "authenticate"
       => /\ address' = address
          /\ contact_mech' = contact_mech
          /\ IF last'.auth = AuthFalse
             THEN session' = [session EXCEPT ![last'.proc] =
                     flash(@, "Your account has not been activated yet!")]
             ELSE session' = session
      ]_vars

\* An authenticate answered False and left its message in the session.
C12_Witness ==
    /\ last.op = "authenticate"
    /\ last.auth = AuthFalse
    /\ session[last.proc].flashes # <<>>

\* C13: at most one credential outside the guest party is associated with a
\* given email value, also after registrations whose existence check and
\* record creation interleave.
C13_UniqueEmail ==
    \A a \in Ids, b \in Ids :
        (/\ a # b
         /\ address[a].party # address[GuestUser].party
         /\ address[b].party # address[GuestUser].party)
        => EmailOf(a) # EmailOf(b)

\* The store in which no contact mechanism carries this email.
forget_email(contacts, email) ==
    [c \in 1..Len(contacts) |->
        IF contacts[c].value = email
        THEN [contacts[c] EXCEPT !.value = "forgotten@x"]
        ELSE contacts[c]]

\* C14: for an activated credential of email e and a password that is not
\* its password, authenticate(e, p) returns None and flashes nothing, exactly
\* as in the store that differs only in having no credential for e.
C14_NoEnumeration ==
    /\ \A e \in AllEmails, pw \in FormPasswords :
         LET a == lookup(address, contact_mech, e)
             here == authenticate(address, contact_mech, e, pw)
             there == authenticate(address, forget_email(contact_mech, e), e, pw)
         IN  (/\ a # 0
              /\ ~not_activated(address[a])
              /\ ~password_matches(address[a], pw))
             => /\ here = AuthNone
                /\ there = here
                /\ authenticate_message(there) = authenticate_message(here)
    /\ last.op = "authenticate" =>
         LET a == lookup(address, contact_mech, last.email)
         IN  (/\ a # 0
              /\ ~not_activated(address[a])
              /\ ~password_matches(address[a], last.password))
             => last.auth = AuthNone /\ last.flash = ""

\* A wrong password for an activated credential was answered None.
C14_Witness ==
    /\ last.op = "authenticate"
    /\ last.auth = AuthNone
    /\ last.flash = ""
    /\ LET a == lookup(address, contact_mech, last.email)
       IN  /\ a # 0
           /\ ~not_activated(address[a])
           /\ ~password_matches(address[a], last.password)
           /\ lookup(address, forget_email(contact_mech, last.email),
                     last.email) = 0

\* C15: authenticate never returns the guest's credential; with the guest's
\* own email it returns None for every password, the right one included.
C15_GuestNeverAuthenticates ==
    /\ \A e \in AllEmails, pw \in FormPasswords :
         LET r == authenticate(address, contact_mech, e, pw)
         IN  /\ r # GuestUser
             /\ r \in Ids => address[r].party # address[GuestUser].party
    /\ \A pw \in FormPasswords :
         authenticate(address, contact_mech, GuestEmail, pw) = AuthNone
    /\ (last.op = "authenticate" /\ last.email = GuestEmail)
         => last.auth = AuthNone

\* The guest's email and the guest's password were answered None.
C15_Witness ==
    /\ last.op = "authenticate"
    /\ last.email = GuestEmail
    /\ EmailOf(GuestUser) = GuestEmail
    /\ password_matches(address[GuestUser], last.password)
    /\ last.auth = AuthNone

\* C16: every password-bearing write, whatever the value of the password
\* field, stores a salt and the digest of password + salt together.
C16_SaltedHashStored ==
    (last.op \in PasswordWrites /\ last.id # 0)
    => /\ address[last.id].salt # <<>>
       /\ address[last.id].password
             = sha1(last.password \o address[last.id].salt)

\* C17: registration, change_password and new_password go on to write a
\* password only when password and confirmation are equal; when they differ
\* the form is rendered again and store and session stay as they were.
C17_ConfirmationRequired ==
    [][/\ (\/ last'.op = "registration_create"
           \/ (last'.op \in {"change_password", "new_password"}
               /\ address' # address))
          => /\ last'.password = last'.confirm
             /\ last'.op = "registration_create"
                   => loc'[last'.proc].password = last'.password
             /\ last'.op # "registration_create"
                   => address'[last'.id] =
                        write_password(address[last'.id], last'.password,
                                       address'[last'.id].salt)
       /\ (/\ last'.op \in {"registration", "change_password", "new_password"}
           /\ last'.password # last'.confirm)
          => /\ address' = address
             /\ contact_mech' = contact_mech
             /\ session' = session
             /\ pc' = pc
             /\ last'.ret \in {"registration.jinja", "change-password.jinja",
                               "new-password.jinja"}
      ]_vars

\* A new_password POST that the gate would have let through was refused for
\* its confirmation.
C17_Witness ==
    /\ last.op = "new_password"
    /\ last.password # <<>>
    /\ last.password # last.confirm
    /\ last.ret = "new-password.jinja"
    /\ session[last.proc].user # 0
    /\ session[last.proc].allow_new_password

\* What a call of get_flashed_messages returned, as messages.
returned_messages(value, with_categories) ==
    IF with_categories THEN messages_of(value) ELSE value

\* C18: within one request every call of get_flashed_messages returns the
\* messages the first call of that request returned, whichever form is asked
\* for and whether or not flash() was called in between.
C18_SameListWithinRequest ==
    ctx.calls >= 1 =>
        returned_messages(ctx.returned, ctx.returned_with)
            = returned_messages(ctx.first, ctx.first_with)

\* A second call, in the other form, after a flash() that followed the first
\* call: the message waits in the session and the list is unchanged.
C18_Witness ==
    /\ ctx.calls = 2
    /\ ctx.flashed_between
    /\ ctx.first # <<>>
    /\ ctx.returned_with # ctx.first_with
    /\ \E v \in Visitors : session[v].flashes # <<>>

\* C19: every message flashed in a session is, in flash order, either in the
\* list of exactly one request or still waiting in the session; a request's
\* first call takes all that wait, so that nothing waits after it but what
\* was flashed later in that request.
C19_OneShot ==
    \A v \in Visitors :
        /\ hist.flashed = hist.delivered \o session[v].flashes
        /\ (ctx.flashes_set /\ ~ctx.flashed_between)
               => session[v].flashes = <<>>

\* Messages delivered over two requests: the request being served received
\* some of them, an earlier request the others.
C19_Witness ==
    /\ ctx.calls >= 1
    /\ ctx.flashes # <<>>
    /\ Len(hist.delivered) > Len(ctx.flashes)
    /\ hist.delivered = hist.flashed

\* C20: the session holds no language until set_language is requested, then
\* the language of the most recent set_language request, and that is what a
\* request to the home page observes.
C20_LanguageRetained ==
    \A v \in Visitors :
        /\ session[v].language = hist.language
        /\ ctx.endpoint = "home" => ctx.response = hist.language

\* The home page shows the second of two different languages set.
C20_Witness ==
    /\ ctx.endpoint = "home"
    /\ ctx.response = "es_ES"
    /\ hist.previous = "en_US"

\* A request ended by the redirect that follows a password replacement.
PasswordReplaced(l, op) == l.op = op /\ l.ret = "nereid.website.login"

\* C21: a valid POST to new_password by a logged-in visitor whose session
\* does not hold a true allow_new_password is answered 403 and changes neither
\* the store nor the session's user and allow_new_password.
C21_ForbiddenWithoutGate ==
    [][\A p \in Visitors :
          (/\ last'.op = "new_password"
           /\ last'.proc = p
           /\ session[p].user # 0
           /\ form_validate(last'.password, last'.confirm)
           /\ ~session[p].allow_new_password)
          => /\ last'.ret = "403"
             /\ address' = address
             /\ session'[p].user = session[p].user
             /\ session'[p].allow_new_password = session[p].allow_new_password
      ]_vars

\* A logged-in visitor without the gate was answered 403.
C21_Witness ==
    /\ last.op = "new_password"
    /\ last.ret = "403"
    /\ last.password # <<>>
    /\ \E p \in Visitors : session[p].user # 0 /\ ~session[p].allow_new_password

\* C22: a successful change_password or new_password leaves the session
\* without user, and new_password, which needs allow_new_password, leaves it
\* without allow_new_password; only an activation with a 12-character code
\* sets allow_new_password, so each such activation permits one replacement
\* through new_password; a new_password POST in the logged-out session is
\* redirected to login and changes nothing.
C22_LoggedOutAfterReplacement ==
    [][\A p \in Visitors :
          /\ (last'.proc = p /\ (\/ PasswordReplaced(last', "change_password")
                                 \/ PasswordReplaced(last', "new_password")))
                 => session'[p].user = 0
          /\ (last'.proc = p /\ PasswordReplaced(last', "new_password"))
                 => session[p].allow_new_password
                    /\ ~session'[p].allow_new_password
          /\ (~session[p].allow_new_password /\ session'[p].allow_new_password)
                 => /\ last'.op = "activate"
                    /\ last'.ret = "party.address.new_password"
                    /\ Len(last'.code) = ResetLength
          /\ (last'.proc = p /\ last'.op = "new_password" /\ session[p].user = 0)
                 => /\ last'.ret = "nereid.website.login?next"
                    /\ UNCHANGED <<address, contact_mech, session>>
      ]_vars

\* new_password has replaced a password and the visitor is logged out.
C22_Witness ==
    /\ PasswordReplaced(last, "new_password")
    /\ session[last.proc].user = 0
    /\ ~session[last.proc].allow_new_password
    /\ address[last.id].password = sha1(last.password \o address[last.id].salt)

\* C23: whenever new_password replaces the password of a credential, the
\* session's user is that credential and allow_new_password was set by the
\* activation of a 12-character code of that same credential.
C23_GateBoundToCredential ==
    [][\A p \in Visitors :
          (last'.proc = p /\ PasswordReplaced(last', "new_password"))
              => /\ session[p].user = last'.id
                 /\ session[p].gate = last'.id
      ]_vars

\* The codes that activate a credential at this moment.
ActivatingCodes(rec) == {c \in AllCodes : code_matches(rec.activation_code, c)}

\* C24: at most one code activates a credential, and once create_act_code has
\* written a new code over an earlier one, the earlier code no longer
\* activates the credential.
C24_OneCodeActivates ==
    /\ \A id \in Ids : Cardinality(ActivatingCodes(address[id])) <= 1
    /\ (/\ last.op = "create_act_code"
        /\ last.ret # "ConflictError"
        /\ last.overwritten # <<>>)
       => last.overwritten \notin ActivatingCodes(address[last.id])

\* reset_account has written a new code over one that was still waiting.
C24_Witness ==
    /\ last.op = "create_act_code"
    /\ last.ret # "ConflictError"
    /\ last.overwritten # <<>>
    /\ address[last.id].activation_code # <<>>

\* C25: when reset_account has written a code on an activated credential,
\* the credential's password and salt are the same as before and every
\* password that authenticated before still authenticates.
C25_ResetDoesNotLockOut ==
    [][\A id \in Ids \ {GuestUser} :
          (/\ last'.op = "create_act_code"
           /\ last'.id = id
           /\ last'.length = ResetLength
           /\ last'.ret # "ConflictError"
           /\ address[id].activation_code = <<>>)
          => /\ address'[id].password = address[id].password
             /\ address'[id].salt = address[id].salt
             /\ \A pw \in FormPasswords :
                   authenticate(address, contact_mech, EmailOf(id), pw) = id
                   => authenticate(address', contact_mech', EmailOf(id), pw) = id
      ]_vars

\* C26: an activation code is a one-time token: an activate that succeeds
\* has cleared the very code it was given, so that of two concurrent
\* activations with the same code only one succeeds.
C26_OneTimeToken ==
    (last.op = "activate" /\ last.flash = "Your account has been activated")
        => last.overwritten = last.code

\* The handlers wrapped by login_required.
LoginRequired == {"change_password", "new_password", "edit_address",
                  "view_address"}

\* C27: in a session without user a handler under login_required writes
\* neither the store nor the session and answers with the redirect to the
\* login endpoint that carries the request's URL as next.
C27_LoginRequired ==
    [][\A p \in Visitors :
          (last'.proc = p /\ last'.op \in LoginRequired /\ session[p].user = 0)
              => /\ last'.ret = "nereid.website.login?next"
                 /\ UNCHANGED <<address, contact_mech, session>>
      ]_vars

\* A logged-out visitor was redirected from edit_address on a site where a
\* logged-in visitor has edited and created addresses before.
C27_Witness ==
    /\ last.op = "edit_address"
    /\ last.ret = "nereid.website.login?next"
    /\ session[last.proc].user = 0
    /\ Len(address) = 3
    /\ address[2].name = <<32>>

\* A path of the file system lies under a directory of it.
IsUnder(target, dir) ==
    Len(target) > Len(dir) /\ SubSeq(target, 1, Len(dir)) = dir

\* C28: send_from_directory either raises NotFound or sends an existing
\* regular file that lies under the directory.
C28_StaysInDirectory ==
    (call.fn = "send_from_directory" /\ call.done)
        => \/ call.response = "NotFound" /\ call.sent = <<>>
           \/ /\ call.response = "send_file"
              /\ resolve(call.sent) \in Files
              /\ IsUnder(resolve(call.sent), resolve(Directory))

\* A file was sent for a filename that goes up with '..' and stays inside.
C28_Witness ==
    /\ call.fn = "send_from_directory"
    /\ call.done
    /\ call.response = "send_file"
    /\ \E i \in 1..(Len(call.filename) - 1) :
           call.filename[i] = "." /\ call.filename[i + 1] = "."

\* The record reached from a record by following parent k times.
RECURSIVE Ancestor(_, _, _)
Ancestor(parent, node, k) ==
    IF k = 0 \/ node = 0 THEN node ELSE Ancestor(parent, parent[node], k - 1)

\* The crumbs of the records in a call's list, without the Home crumb.
RecordCrumbs(c) ==
    IF c.add_home /\ c.done THEN SubSeq(c.items, 1, Len(c.items) - 1)
    ELSE c.items

\* The list of a call holds at most max_size crumbs, the i-th of the record
\* reached by following parent i - 1 times; the list returned ends with the
\* Home crumb when add_home is true and stops short of max_size only where
\* the chain of parents ends.
CrumbsInOrder(c) ==
    /\ Len(RecordCrumbs(c)) <= c.max_size
    /\ \A i \in 1..Len(RecordCrumbs(c)) :
           /\ Ancestor(c.parent, c.record, i - 1) # 0
           /\ RecordCrumbs(c)[i] = crumb(Ancestor(c.parent, c.record, i - 1))
    /\ c.done =>
           /\ c.add_home =>
                  c.items # <<>> /\ c.items[Len(c.items)] = HomeCrumb
           /\ \/ Len(RecordCrumbs(c)) = c.max_size
              \/ Ancestor(c.parent, c.record, Len(RecordCrumbs(c))) = 0

\* C29: make_crumbs returns, whatever the parent relation: every frame of
\* the recursion either returns or calls the frame of the next level, and no
\* level exceeds max_size + 1; it returns at most max_size crumbs in the
\* order of the ancestors and then the Home crumb exactly when add_home is
\* true.
C29_CrumbsTerminate ==
    [][call'.fn = "make_crumbs" =>
          /\ CrumbsInOrder(call')
          /\ call'.level <= call'.max_size + 1
          /\ call.fn = "make_crumbs" =>
                 \/ call'.done /\ call'.level = call.level
                 \/ ~call'.done /\ call'.level = call.level + 1
      ]_vars

\* make_crumbs has returned max_size crumbs and Home for a record whose
\* parent chain is a cycle.
C29_Witness ==
    /\ call.fn = "make_crumbs"
    /\ call.done
    /\ call.add_home
    /\ call.max_size = 2
    /\ Len(call.items) = 3
    /\ call.record # 0
    /\ call.parent[call.record] # call.record
    /\ call.parent[call.parent[call.record]] = call.record

====
